---- MODULE Spec2Model ----
(***************************************************************************)
(* Model of volte/simple_irc: RxSocket (net.Socket wrapper with the line   *)
(* transformer lines$), RxIRCClient (handshake, keep-alive, send$) and the *)
(* recursive-descent parser parseIRCMessage.                               *)
(*                                                                         *)
(* A string is a sequence of one-character strings; "" stands for the      *)
(* empty string returned by peekNext at end of input.                      *)
(***************************************************************************)
EXTENDS Integers, Sequences, FiniteSets, TLC

VARIABLES
    sockState,        \* net.Socket: "idle", "connecting", "open", "closed"
    connectListener,  \* the socket.once("connect") listener is still registered
    connected,        \* value of connectedSubject (BehaviorSubject<boolean>)
    subscription,     \* the core's messages$ subscription: "active", "completed", "errored"
    buffer,           \* scan accumulator of the core's lines$ pipeline (LineBuffer)
    chunks,           \* history: the chunks delivered by "data" events
    emittedRaw,       \* history: the regex matches that were emitted (terminators kept)
    emitted,          \* history: the lines emitted by lines$
    delivered,        \* history: the messages delivered to the keep-alive handler
    sent,             \* history: send$.next calls, [message, data]
    written,          \* history: the arguments of socket.write
    nComplete,        \* history: number of send$.complete() calls
    nError,           \* history: number of send$.error() calls
    subs,             \* the subscriptions of external consumers to messages$
    nData,            \* history: number of "data" events handled by some listener
    endListeners,     \* number of socket.once("end") listeners registered
    endCalls,         \* history: number of socket.end() calls
    lastClose,        \* hadError of the "close" event that closed the socket: "none", "clean", "error"
    pLine,            \* parseIRCMessage: the argument line
    pIndex,           \* parseIRCMessage: the cursor index (0-based)
    pMsg,             \* parseIRCMessage: the message under construction
    pc                \* parseIRCMessage: "idle", "loop", "done"

vars == <<sockState, connectListener, connected, subscription, buffer, chunks,
          emittedRaw, emitted, delivered, sent, written, nComplete, nError,
          subs, nData, endListeners, endCalls, lastClose,
          pLine, pIndex, pMsg, pc>>

sockVars == <<sockState, connectListener, connected, subscription>>
lineVars == <<buffer, chunks, emittedRaw, emitted, delivered>>
sendVars == <<sent, written, nComplete, nError>>
subVars == <<subs, nData, endListeners, endCalls, lastClose>>
parseVars == <<pLine, pIndex, pMsg, pc>>

----------------------------------------------------------------------------
(* Bounds *)

MaxChunks == 3      \* number of "data" events in a run
MaxChunkLen == 2    \* length of a character-level chunk
MaxPayload == 5     \* total number of characters received (character-level runs)
MaxWritten == 4     \* number of socket.write calls in a run
MaxLine == 4        \* length of an arbitrary line handed to the parser
MaxSubsData == 2    \* number of "data" events in a run with several consumers

----------------------------------------------------------------------------
(* Strings *)

CR == "\r"
LF == "\n"
SP == " "
COLON == ":"

RECURSIVE Concat(_)
Concat(ss) == IF ss = <<>> THEN <<>> ELSE Head(ss) \o Concat(Tail(ss))

RECURSIVE Join(_, _)
Join(ss, sep) ==
    IF ss = <<>> THEN <<>>
    ELSE IF Len(ss) = 1 THEN ss[1]
    ELSE ss[1] \o sep \o Join(Tail(ss), sep)

Max(a, b) == IF a >= b THEN a ELSE b
Min(a, b) == IF a <= b THEN a ELSE b

\* Array.prototype.slice(start, end) with JavaScript's negative indices
Slice(arr, start, end) ==
    LET n == Len(arr)
        s == IF start < 0 THEN Max(n + start, 0) ELSE Min(start, n)
        e == IF end < 0 THEN Max(n + end, 0) ELSE Min(end, n)
    IN  IF s >= e THEN <<>> ELSE SubSeq(arr, s + 1, e)

SliceFrom(arr, start) == Slice(arr, start, Len(arr))

\* all strings over alphabet of length at most n
StringsUpTo(alphabet, n) == UNION {[1..k -> alphabet] : k \in 0..n}

----------------------------------------------------------------------------
(* RxSocket.lines$ : the scan accumulator *)

\* number of leading characters of s that are not "\n" : the greedy [^\n]+
RECURSIVE RunLen(_)
RunLen(s) == IF s = <<>> \/ Head(s) = LF THEN 0 ELSE 1 + RunLen(Tail(s))

\* incomplete.match(/[^\n]+(?:\r?\n|$)/g) || []
RECURSIVE MatchLines(_)
MatchLines(s) ==
    IF s = <<>> THEN <<>>
    ELSE IF Head(s) = LF THEN MatchLines(Tail(s))
    ELSE LET n == RunLen(s)
             m == IF n < Len(s) THEN n + 1 ELSE n
         IN  <<SubSeq(s, 1, m)>> \o MatchLines(SubSeq(s, m + 1, Len(s)))

endsWithLF(str) == str # <<>> /\ str[Len(str)] = LF

\* a trimTerminator that strips nothing
keepTerminator(str) == str

\* str.replace(/\r?\n$/g, '')
trimTerminator(str) ==
    IF ~endsWithLF(str) THEN str
    ELSE IF Len(str) >= 2 /\ str[Len(str) - 1] = CR THEN SubSeq(str, 1, Len(str) - 2)
    ELSE SubSeq(str, 1, Len(str) - 1)

\* lines.map(trimTerminator)
TrimAll(lines) == [i \in 1..Len(lines) |-> trimTerminator(lines[i])]

EmptyBuffer == [complete |-> <<>>, incomplete |-> <<>>]

\* the string the accumulator works on: buffer.incomplete + data.toString()
ForgetIncomplete(buf, data) == data
Working(buf, data) == buf.incomplete \o data

\* the matches that are emitted by this step, terminators kept
CompleteRaw(buf, data) ==
    LET lines == MatchLines(Working(buf, data))
    IN  IF lines = <<>> THEN <<>>
        ELSE IF endsWithLF(lines[Len(lines)]) THEN lines
        ELSE Slice(lines, 0, Len(lines) - 1)

\* the accumulator function handed to scan
ScanLines(buf, data) ==
    LET lines == MatchLines(Working(buf, data))
    IN  IF lines = <<>> THEN [complete |-> <<>>, incomplete |-> <<>>]
        ELSE IF endsWithLF(lines[Len(lines)])
             THEN [complete |-> TrimAll(lines), incomplete |-> <<>>]
             ELSE [complete |-> TrimAll(Slice(lines, 0, Len(lines) - 1)),
                   incomplete |-> lines[Len(lines)]]

\* the lines emitted when a whole payload arrives as one chunk on an empty buffer
LinesOf(payload) == ScanLines(EmptyBuffer, payload).complete

Received == Concat(chunks)

----------------------------------------------------------------------------
(* parseIRCMessage *)

Undefined == <<"undefined">>     \* the value undefined of an optional string

\* peekNext(): "" at end of input
peekNext(line, index) == IF index >= Len(line) THEN "" ELSE line[index + 1]

\* the cursor after skip(c)
skipIndex(line, index, c) == IF peekNext(line, index) = c THEN index + 1 ELSE index

\* the three predicates handed to scanWhile
isSpace == "c === ' '"
notSpace == "c !== ' '"
anyChar == "() => true"

accepts(pred, c) ==
    CASE pred = isSpace -> c = SP
      [] pred = notSpace -> c # SP
      [] pred = anyChar -> TRUE

\* the cursor after scanWhile(pred): the first position at end of input or
\* whose character fails pred
scanWhileEnd(line, index, pred) ==
    IF index >= Len(line) THEN index
    ELSE CHOOSE j \in index..Len(line) :
            /\ \A i \in index..(j - 1) : accepts(pred, line[i + 1])
            /\ (j = Len(line) \/ ~accepts(pred, line[j + 1]))

\* the string returned by scanWhile(pred)
scanWhile(line, index, pred) ==
    SubSeq(line, index + 1, scanWhileEnd(line, index, pred))

\* the cursor after skipSpaces()
skipSpacesEnd(line, index) == scanWhileEnd(line, index, isSpace)

isEOF(line, index) == index >= Len(line)

EmptyMessage == [prefix |-> Undefined, command |-> <<>>, params |-> <<>>]

\* lines 195-208: prefix and command; done tells that the function returned
ParseHead(line) ==
    LET hasPrefix == peekNext(line, 0) = COLON
        i0 == skipIndex(line, 0, COLON)
        i1 == scanWhileEnd(line, i0, notSpace)
        prefix == SubSeq(line, i0 + 1, i1)
        i2 == skipSpacesEnd(line, i1)
    IN  IF hasPrefix /\ i2 = i1
        THEN [index |-> i1, done |-> TRUE,
              message |-> [prefix |-> prefix, command |-> <<>>, params |-> <<>>]]
        ELSE LET c0 == IF hasPrefix THEN i2 ELSE i0
                 c1 == scanWhileEnd(line, c0, notSpace)
                 c2 == skipSpacesEnd(line, c1)
                 msg == [prefix |-> IF hasPrefix THEN prefix ELSE Undefined,
                         command |-> SubSeq(line, c0 + 1, c1),
                         params |-> <<>>]
             IN  [index |-> c2, done |-> (c2 = c1), message |-> msg]

\* the parameter loop without the skipSpaces() call of line 219
ParamIterNoSkip(line, st) ==
    IF peekNext(line, st.index) = COLON
    THEN [index |-> scanWhileEnd(line, st.index + 1, anyChar), done |-> TRUE,
          message |-> [st.message EXCEPT !.params =
                          Append(@, scanWhile(line, st.index + 1, anyChar))]]
    ELSE LET i1 == scanWhileEnd(line, st.index, notSpace)
         IN  [index |-> i1, done |-> isEOF(line, i1),
              message |-> [st.message EXCEPT !.params =
                              Append(@, scanWhile(line, st.index, notSpace))]]

\* the parameter loop with a trailing parameter that stops at the first space
ParamIterTrailingToken(line, st) ==
    IF peekNext(line, st.index) = COLON
    THEN [index |-> scanWhileEnd(line, st.index + 1, notSpace), done |-> TRUE,
          message |-> [st.message EXCEPT !.params =
                          Append(@, scanWhile(line, st.index + 1, notSpace))]]
    ELSE LET i1 == scanWhileEnd(line, st.index, notSpace)
             i2 == skipSpacesEnd(line, i1)
         IN  [index |-> i2, done |-> isEOF(line, i2),
              message |-> [st.message EXCEPT !.params =
                              Append(@, scanWhile(line, st.index, notSpace))]]

\* the parameter loop without the check for a trailing parameter
ParamIterNoTrailing(line, st) ==
    LET i1 == scanWhileEnd(line, st.index, notSpace)
        i2 == skipSpacesEnd(line, i1)
    IN  [index |-> i2, done |-> isEOF(line, i2),
         message |-> [st.message EXCEPT !.params =
                         Append(@, scanWhile(line, st.index, notSpace))]]

\* lines 211-223: one iteration of the parameter loop
ParamIter(line, st) ==
    IF peekNext(line, st.index) = COLON
    THEN [index |-> scanWhileEnd(line, st.index + 1, anyChar), done |-> TRUE,
          message |-> [st.message EXCEPT !.params =
                          Append(@, scanWhile(line, st.index + 1, anyChar))]]
    ELSE LET i1 == scanWhileEnd(line, st.index, notSpace)
             i2 == skipSpacesEnd(line, i1)
         IN  [index |-> i2, done |-> isEOF(line, i2),
              message |-> [st.message EXCEPT !.params =
                              Append(@, scanWhile(line, st.index, notSpace))]]

RECURSIVE ParamLoop(_, _)
ParamLoop(line, st) == IF st.done THEN st.message ELSE ParamLoop(line, ParamIter(line, st))

parseIRCMessage(line) == ParamLoop(line, ParseHead(line))

----------------------------------------------------------------------------
(* RxIRCClient *)

USER == <<"U", "S", "E", "R">>
NICK == <<"N", "I", "C", "K">>
PING == <<"P", "I", "N", "G">>
PONG == <<"P", "O", "N", "G">>
PRIVMSG == <<"P", "R", "I", "V", "M", "S", "G">>
QuitLeaving == <<"Q", "U", "I", "T", " ", ":", "L", "e", "a", "v", "i", "n", "g", "\r", "\n">>
QuitError == <<"Q", "U", "I", "T", " ", ":", "E", "r", "r", "o", "r", "\r", "\n">>

\* RxIRCClient.Options of the client under study
Options == [username |-> <<"u">>, nick |-> <<"n">>, realName |-> <<"r", " ", "n">>]

Message(command, params) == [prefix |-> Undefined, command |-> command, params |-> params]

\* a format in which the terminator is appended to the last param
FormatTerminatorOnLast(message) ==
    LET paramCount == Len(message.params)
        last == SliceFrom(message.params, paramCount - 1)
    IN  message.command \o <<SP>>
          \o Join(Slice(message.params, 0, paramCount - 1), <<SP>>) \o <<SP>>
          \o <<COLON>> \o Join([i \in 1..Len(last) |-> last[i] \o <<CR, LF>>], <<SP>>)

\* a format that does not mark the last param with ':'
FormatNoMarker(message) ==
    LET paramCount == Len(message.params)
    IN  message.command \o <<SP>>
          \o Join(Slice(message.params, 0, paramCount - 1), <<SP>>) \o <<SP>>
          \o Join(SliceFrom(message.params, paramCount - 1), <<SP>>)
          \o <<CR, LF>>

\* send$.next: the data string built from a message
Format(message) ==
    LET paramCount == Len(message.params)
    IN  message.command \o <<SP>>
          \o Join(Slice(message.params, 0, paramCount - 1), <<SP>>) \o <<SP>>
          \o <<COLON>> \o Join(SliceFrom(message.params, paramCount - 1), <<SP>>)
          \o <<CR, LF>>

\* the send$.next calls made for a sequence of messages, in order
SendAll(messages) == [i \in 1..Len(messages) |->
                        [message |-> messages[i], data |-> Format(messages[i])]]

DataOf(sends) == [i \in 1..Len(sends) |-> sends[i].data]

\* sendUserAndNick
UserAndNick ==
    << Message(USER, <<Options.username, <<".">>, <<".">>, Options.realName>>),
       Message(NICK, <<Options.nick>>) >>

\* the keep-alive handler of handleIRCProtocol applied to one message
KeepAliveNoParams(message) ==
    IF message.command = PING THEN <<Message(PONG, <<>>)>> ELSE <<>>
KeepAlive(message) ==
    IF message.command = PING THEN <<Message(PONG, message.params)>> ELSE <<>>

RECURSIVE KeepAliveAll(_)
KeepAliveAll(messages) ==
    IF messages = <<>> THEN <<>>
    ELSE KeepAlive(Head(messages)) \o KeepAliveAll(Tail(messages))

\* messages$ : every line is parsed, the parser never returns undefined
MessagesOf(lines) == [i \in 1..Len(lines) |-> parseIRCMessage(lines[i])]

----------------------------------------------------------------------------
(* Consumers of messages$ and RxIRCChannel *)

UpperCase == <<"A", "B", "C", "D", "E", "F", "G", "H", "I", "J", "K", "L", "M",
               "N", "O", "P", "Q", "R", "S", "T", "U", "V", "W", "X", "Y", "Z">>
LowerCase == <<"a", "b", "c", "d", "e", "f", "g", "h", "i", "j", "k", "l", "m",
               "n", "o", "p", "q", "r", "s", "t", "u", "v", "w", "x", "y", "z">>

\* String.prototype.toLowerCase
toLowerCase(str) ==
    [i \in 1..Len(str) |->
        IF \E k \in 1..26 : UpperCase[k] = str[i]
        THEN LowerCase[CHOOSE k \in 1..26 : UpperCase[k] = str[i]]
        ELSE str[i]]

\* a channel filter that compares the names as they are
ChannelFilterExact(channel, message) ==
    Len(message.params) > 0 /\ message.params[1] = channel

\* the filter of RxIRCChannel.messages$
ChannelFilter(channel, message) ==
    Len(message.params) > 0 /\ toLowerCase(message.params[1]) = toLowerCase(channel)

\* the messages that pass the pipeline of a consumer, in order
RECURSIVE Filtered(_, _)
Filtered(channel, messages) ==
    IF messages = <<>> THEN <<>>
    ELSE (IF channel = Undefined \/ ChannelFilter(channel, Head(messages))
          THEN <<Head(messages)>> ELSE <<>>) \o Filtered(channel, Tail(messages))

Subscribers == {"ext", "view"}

\* state: "none", "active", "unsubscribed", "completed", "errored"
\* buffer: the scan accumulator of the consumer's own lines$ pipeline
\* inp, nIn: history, the payload and the number of chunks it was handed
\* seen: history, the messages emitted by its messages$ pipeline
\* got: history, the messages delivered to the consumer
\* terminal: history, the number of complete/error notifications delivered
NoSubscription ==
    [state |-> "none", channel |-> Undefined, buffer |-> EmptyBuffer,
     inp |-> <<>>, nIn |-> 0, seen |-> <<>>, got |-> <<>>, terminal |-> 0]

\* onData of the consumer's data$ subscription, through lines$ and messages$
OnData(sub, chunk) ==
    LET next == ScanLines(sub.buffer, chunk)
        messages == MessagesOf(next.complete)
    IN  [sub EXCEPT !.buffer = next,
                    !.inp = @ \o chunk,
                    !.nIn = @ + 1,
                    !.seen = @ \o messages,
                    !.got = @ \o Filtered(sub.channel, messages)]

\* a close listener that reports every close as a completion
TerminalAlwaysComplete(hadError) == "completed"

\* the close listener of data$: subscriber.error or subscriber.complete
TerminalState(hadError) == IF hadError THEN "errored" ELSE "completed"

----------------------------------------------------------------------------
(* Inputs *)

LineAlphabet == {"a", CR, LF}
CharChunks == StringsUpTo(LineAlphabet, MaxChunkLen)

ProtoChunks ==
    { <<"P", "I">>, <<"N", "G", SP, COLON, "a">>, <<CR>>, <<LF, "X", LF>> }

CallerMessages ==
    { Message(PRIVMSG, << <<"#", "c">>, <<"h", SP, "i">> >>),
      Message(<<"Z">>, <<>>) }

\* chunks for runs with several consumers: the start of a line; a channel
\* name that ends a line, a line without params and a PING to another
\* channel; a line of its own
SubsChunks ==
    { <<"X", SP>>,
      <<"#", "C", LF, "Y", LF, "P", "I", "N", "G", SP, "#", "d", LF>>,
      <<"Z", LF>> }

Channels == { <<"#", "c">>, <<"#", "D">> }

ParseAlphabet == {"a", SP, COLON}

----------------------------------------------------------------------------
(* Initial state: a constructed RxIRCClient, connect() not yet called *)

Init ==
    /\ sockState = "idle"
    /\ connectListener = TRUE
    /\ connected = FALSE
    /\ subscription = "active"
    /\ buffer = EmptyBuffer
    /\ chunks = <<>>
    /\ emittedRaw = <<>>
    /\ emitted = <<>>
    /\ delivered = <<>>
    /\ sent = <<>>
    /\ written = <<>>
    /\ nComplete = 0
    /\ nError = 0
    /\ subs = [s \in Subscribers |-> NoSubscription]
    /\ nData = 0
    /\ endListeners = 1
    /\ endCalls = 0
    /\ lastClose = "none"
    /\ pLine = <<>>
    /\ pIndex = 0
    /\ pMsg = EmptyMessage
    /\ pc = "idle"

----------------------------------------------------------------------------
(* Transport events and caller operations *)

\* RxIRCClient.connect() -> socket.connect(options)
Connect ==
    /\ sockState \in {"idle", "closed"}
    /\ sockState' = "connecting"
    /\ lastClose' = "none"
    /\ UNCHANGED <<connectListener, connected, subscription>>
    /\ UNCHANGED <<subs, nData, endListeners, endCalls>>
    /\ UNCHANGED <<lineVars, sendVars, parseVars>>

\* whether the "connect" listener stays registered after it ran
ListenerAfterOn == TRUE
ListenerAfterConnect == FALSE

\* the socket's "connect" event
SocketConnect ==
    /\ sockState = "connecting"
    /\ sockState' = "open"
    /\ IF connectListener
       THEN /\ Len(written) + 2 <= MaxWritten
            /\ connectListener' = ListenerAfterConnect
            /\ connected' = TRUE
            /\ sent' = sent \o SendAll(UserAndNick)
            /\ written' = written \o DataOf(SendAll(UserAndNick))
       ELSE UNCHANGED <<connectListener, connected, sent, written>>
    /\ UNCHANGED <<subscription, nComplete, nError>>
    /\ UNCHANGED <<lineVars, subVars, parseVars>>

\* the socket's "data" event, through lines$, messages$ and the keep-alive handler
SocketData(chunk) ==
    /\ sockState = "open"
    /\ subscription = "active" \/ \E s \in Subscribers : subs[s].state = "active"
    /\ nData < MaxChunks
    /\ IF subscription = "active"
       THEN LET next == ScanLines(buffer, chunk)
                messages == MessagesOf(next.complete)
                replies == SendAll(KeepAliveAll(messages))
            IN  /\ Len(written) + Len(replies) <= MaxWritten
                /\ buffer' = next
                /\ chunks' = Append(chunks, chunk)
                /\ emittedRaw' = emittedRaw \o CompleteRaw(buffer, chunk)
                /\ emitted' = emitted \o next.complete
                /\ delivered' = delivered \o messages
                /\ sent' = sent \o replies
                /\ written' = written \o DataOf(replies)
       ELSE UNCHANGED <<lineVars, sent, written>>
    /\ subs' = [s \in Subscribers |->
                  IF subs[s].state = "active" THEN OnData(subs[s], chunk) ELSE subs[s]]
    /\ nData' = nData + 1
    /\ UNCHANGED <<sockVars, nComplete, nError, endListeners, endCalls, lastClose, parseVars>>

\* what the "close" listener of data$ writes to the socket
QuitOnClose(hadError) == IF hadError THEN <<QuitError>> ELSE <<QuitLeaving>>
WrittenOnClose(hadError) == <<>>

\* the socket's "close" event
SocketClose(hadError) ==
    /\ sockState \in {"connecting", "open", "ended"}
    /\ sockState' = "closed"
    /\ IF subscription = "active"
       THEN /\ subscription' = TerminalState(hadError)
            /\ Len(written) + Len(WrittenOnClose(hadError)) <= MaxWritten
            /\ written' = written \o WrittenOnClose(hadError)
       ELSE UNCHANGED <<subscription, written>>
    /\ subs' = [s \in Subscribers |->
                  IF subs[s].state = "active"
                  THEN [subs[s] EXCEPT !.state = TerminalState(hadError),
                                       !.terminal = @ + 1]
                  ELSE subs[s]]
    /\ lastClose' = IF hadError THEN "error" ELSE "clean"
    /\ UNCHANGED <<connectListener, connected, sent, nComplete, nError>>
    /\ UNCHANGED <<nData, endListeners, endCalls>>
    /\ UNCHANGED <<lineVars, parseVars>>

\* the socket's "end" event: every once("end") listener answers with socket.end()
SocketEnd ==
    /\ sockState = "open"
    /\ sockState' = "ended"
    /\ endCalls' = endCalls + endListeners
    /\ endListeners' = 0
    /\ UNCHANGED <<connectListener, connected, subscription>>
    /\ UNCHANGED <<subs, nData, lastClose>>
    /\ UNCHANGED <<lineVars, sendVars, parseVars>>

\* a consumer subscribes to client.messages$ (channel undefined) or to the
\* messages$ of a channel view: a new lines$ pipeline and new socket listeners
Subscribe(s, channel) ==
    /\ subs[s].state = "none"
    /\ subs' = [subs EXCEPT ![s] = [NoSubscription EXCEPT !.state = "active",
                                                          !.channel = channel]]
    /\ endListeners' = endListeners + 1
    /\ UNCHANGED <<nData, endCalls, lastClose>>
    /\ UNCHANGED <<sockVars, lineVars, sendVars, parseVars>>

\* a teardown that also ends the socket
EndCallsAfterEndingTeardown(n) == n + 1

\* the number of socket.end() calls after the teardown of data$, n before it
EndCallsAfterTeardown(n) == n

\* a consumer unsubscribes: the teardown of data$ removes its "data" listener
Unsubscribe(s) ==
    /\ subs[s].state = "active"
    /\ subs' = [subs EXCEPT ![s].state = "unsubscribed"]
    /\ endCalls' = EndCallsAfterTeardown(endCalls)
    /\ UNCHANGED <<nData, endListeners, lastClose>>
    /\ UNCHANGED <<sockVars, lineVars, sendVars, parseVars>>

\* RxIRCClient.send(message) by a caller
Send(message) ==
    /\ Len(written) < MaxWritten
    /\ sent' = sent \o SendAll(<<message>>)
    /\ written' = written \o DataOf(SendAll(<<message>>))
    /\ UNCHANGED <<nComplete, nError, sockVars, lineVars, subVars, parseVars>>

\* send$.complete() by a caller
SendComplete ==
    /\ Len(written) < MaxWritten
    /\ written' = Append(written, QuitLeaving)
    /\ nComplete' = nComplete + 1
    /\ UNCHANGED <<sent, nError, sockVars, lineVars, subVars, parseVars>>

\* send$.error() by a caller
SendError ==
    /\ Len(written) < MaxWritten
    /\ written' = Append(written, QuitError)
    /\ nError' = nError + 1
    /\ UNCHANGED <<sent, nComplete, sockVars, lineVars, subVars, parseVars>>

DataProto == \E chunk \in ProtoChunks : SocketData(chunk)

DataChars ==
    \E chunk \in CharChunks :
        /\ Len(Received) + Len(chunk) <= MaxPayload
        /\ SocketData(chunk)

CloseClean == SocketClose(FALSE)
CloseError == SocketClose(TRUE)
CallerSend == \E message \in CallerMessages : Send(message)

Next ==
    \/ Connect
    \/ SocketConnect
    \/ DataProto
    \/ CloseClean
    \/ CloseError
    \/ CallerSend
    \/ SendComplete
    \/ SendError

Spec == Init /\ [][Next]_vars

\* several consumers of messages$ on one socket
DataSubs == \E chunk \in SubsChunks : nData < MaxSubsData /\ SocketData(chunk)
SubscribeMessages == Subscribe("ext", Undefined)
SubscribeChannel == \E channel \in Channels : Subscribe("view", channel)
UnsubscribeAny == \E s \in Subscribers : Unsubscribe(s)

NextSubs ==
    \/ Connect
    \/ SocketConnect
    \/ DataSubs
    \/ CloseClean
    \/ CloseError
    \/ SocketEnd
    \/ SubscribeMessages
    \/ SubscribeChannel
    \/ UnsubscribeAny

SpecSubs == Init /\ [][NextSubs]_vars

\* the line transformer fed with every character-level chunking
NextLines ==
    \/ Connect
    \/ SocketConnect
    \/ DataChars

SpecLines == Init /\ [][NextLines]_vars

----------------------------------------------------------------------------
(* parseIRCMessage run one loop iteration at a time *)

\* lines of the shape [':' prefix ' '] command (' ' middle)* [' ' ':' trailing]
PrefixParts == {Undefined, <<"a">>, <<COLON, "a">>}
CommandParts == {<<"a">>, <<"a", COLON>>}
MiddleParts == {<<"a">>, <<"a", COLON, "a">>}
MiddleSeqs == UNION {[1..k -> MiddleParts] : k \in 0..2}
TrailingParts == {Undefined, <<>>, <<"a">>, <<"a", SP, "a">>, <<SP>>, <<COLON, SP>>}

WellFormedParts ==
    [prefix : PrefixParts, command : CommandParts,
     middles : MiddleSeqs, trailing : TrailingParts]

RECURSIVE SpacePrefixed(_)
SpacePrefixed(tokens) ==
    IF tokens = <<>> THEN <<>> ELSE <<SP>> \o Head(tokens) \o SpacePrefixed(Tail(tokens))

BuildLine(parts) ==
    (IF parts.prefix = Undefined THEN <<>> ELSE <<COLON>> \o parts.prefix \o <<SP>>)
      \o parts.command
      \o SpacePrefixed(parts.middles)
      \o (IF parts.trailing = Undefined THEN <<>> ELSE <<SP, COLON>> \o parts.trailing)

\* longer malformed lines: leading, repeated and trailing spaces, empty prefix
MalformedLines ==
    { <<SP, "a", SP, SP, "a", SP, "a", SP>>,
      <<COLON, SP, SP, "a", SP, SP, COLON>>,
      <<COLON, "a", SP, SP, SP, "a", SP, SP>> }

\* messages handed to send whose written line is parsed back
LastParts == {<<>>, <<"a">>, <<"a", SP, "a">>, <<SP>>, <<COLON, SP>>, <<COLON, "a">>}
RoundTripParams ==
    {<<>>} \cup {middles \o <<last>> : middles \in MiddleSeqs, last \in LastParts}
RoundTripMessages == {Message(command, params) : command \in CommandParts, params \in RoundTripParams}

\* the written data without its final "\r\n", as lines$ hands it to the parser
StripCRLF(data) == SubSeq(data, 1, Len(data) - 2)

ParseInputs ==
    StringsUpTo(ParseAlphabet, MaxLine)
      \cup {BuildLine(parts) : parts \in WellFormedParts}
      \cup MalformedLines
      \cup {StripCRLF(Format(message)) : message \in RoundTripMessages}

\* the call, up to the first return or the entry of the parameter loop
ParseCall(line) ==
    /\ pc = "idle"
    /\ LET st == ParseHead(line)
       IN  /\ pLine' = line
           /\ pIndex' = st.index
           /\ pMsg' = st.message
           /\ pc' = IF st.done THEN "done" ELSE "loop"
    /\ UNCHANGED <<sockVars, lineVars, sendVars, subVars>>

\* one iteration of while (true)
ParseLoop ==
    /\ pc = "loop"
    /\ LET st == ParamIter(pLine, [index |-> pIndex, done |-> FALSE, message |-> pMsg])
       IN  /\ pIndex' = st.index
           /\ pMsg' = st.message
           /\ pc' = IF st.done THEN "done" ELSE "loop"
    /\ UNCHANGED <<pLine, sockVars, lineVars, sendVars, subVars>>

\* the caller takes the returned message
ParseReturn ==
    /\ pc = "done"
    /\ pc' = "idle"
    /\ pLine' = <<>>
    /\ pIndex' = 0
    /\ pMsg' = EmptyMessage
    /\ UNCHANGED <<sockVars, lineVars, sendVars, subVars>>

ParseAny == \E line \in ParseInputs : ParseCall(line)

NextParse ==
    \/ ParseAny
    \/ ParseLoop
    \/ ParseReturn

SpecParse == Init /\ [][NextParse]_vars

\* the loop is not suspended forever: the function runs to its return
SpecParseFair == Init /\ [][NextParse]_vars /\ WF_vars(ParseLoop)

----------------------------------------------------------------------------
(* Properties *)

Range(f) == {f[i] : i \in DOMAIN f}
Count(f, x) == Cardinality({i \in DOMAIN f : f[i] = x})

\* the subsequence of the elements of ss that satisfy Test
Select(ss, Test(_)) ==
    LET idx == {i \in 1..Len(ss) : Test(ss[i])}
    IN  [k \in 1..Cardinality(idx) |->
            ss[CHOOSE i \in idx : Cardinality({j \in idx : j <= i}) = k]]

SentMessages == [i \in 1..Len(sent) |-> sent[i].message]

\* C1: split independence. However the payload received so far was cut into
\* chunks (between "\r" and "\n", with empty chunks), the lines emitted by
\* lines$ are the lines emitted for the whole payload arriving as one chunk
\* on the empty buffer.
C1_SplitIndependence == emitted = LinesOf(Received)

C1_Witness ==
    /\ Len(chunks) >= 3
    /\ \E i \in 1..(Len(chunks) - 1) :
          /\ chunks[i] # <<>> /\ chunks[i][Len(chunks[i])] = CR
          /\ chunks[i + 1] # <<>> /\ chunks[i + 1][1] = LF
    /\ \E i \in 1..Len(chunks) : chunks[i] = <<>>
    /\ \E i \in 1..Len(emitted) : emitted[i] # <<>>

\* C2: the handshake happens once and in order. Before the lifecycle signal
\* is true no USER or NICK is written; from then on the sends of the core
\* contain exactly one USER [username, ".", ".", realName] and exactly one
\* NICK [nick], USER first, whatever connect events follow.
IsUser(message) == message.command = USER
IsNick(message) == message.command = NICK
IsHandshake(message) == IsUser(message) \/ IsNick(message)

C2_HandshakeOnce ==
    Select(SentMessages, IsHandshake) =
        IF connected
        THEN << Message(USER, <<Options.username, <<".">>, <<".">>, Options.realName>>),
                Message(NICK, <<Options.nick>>) >>
        ELSE <<>>

\* a second "connect" event after the handshake: open again after a close
\* that followed received data
C2_Witness ==
    /\ connected
    /\ sockState = "open"
    /\ subscription # "active"
    /\ chunks # <<>>

\* C3: keep-alive. The sends of the core that are neither the handshake nor a
\* caller's are, one for one and in order, a PONG for every inbound message
\* whose command is PING, with the params of that PING; other inbound
\* messages cause no send.
IsPing(message) == message.command = PING
PongFor(message) == Message(PONG, message.params)
IsCoreReply(message) == ~IsHandshake(message) /\ message \notin CallerMessages

C3_KeepAlive ==
    /\ Select(SentMessages, IsCoreReply) =
          (LET pings == Select(MessagesOf(LinesOf(Received)), IsPing)
           IN  [i \in 1..Len(pings) |-> PongFor(pings[i])])
    /\ Len(written) = Len(sent) + nComplete + nError

C3_Witness ==
    /\ Len(chunks) >= 3
    /\ \E i \in 1..Len(delivered) : IsPing(delivered[i]) /\ delivered[i].params # <<>>
    /\ \E i \in 1..Len(delivered) : ~IsPing(delivered[i])
    /\ \E i \in 1..Len(sent) : sent[i].message.command = PONG

ClaimedFormat(message) ==
    LET k == Len(message.params)
    IN  message.command \o SpacePrefixed(SubSeq(message.params, 1, k - 1))
          \o <<SP, COLON>> \o message.params[k] \o <<CR, LF>>

C5_Format ==
    \A i \in 1..Len(sent) :
        Len(sent[i].message.params) >= 1 => sent[i].data = ClaimedFormat(sent[i].message)

\* C6: on a well-formed line the parser returns the prefix (undefined when
\* absent), the command, and as params the middles in order followed by the
\* trailing taken verbatim.
ClaimedParse(parts) ==
    [prefix |-> parts.prefix,
     command |-> parts.command,
     params |-> parts.middles \o
                 (IF parts.trailing = Undefined THEN <<>> ELSE <<parts.trailing>>)]

C6_WellFormed ==
    pc = "done" =>
        \A parts \in WellFormedParts :
            BuildLine(parts) = pLine => pMsg = ClaimedParse(parts)

C6_Witness ==
    /\ pc = "done"
    /\ pLine = BuildLine([prefix |-> <<COLON, "a">>, command |-> <<"a", COLON>>,
                          middles |-> << <<"a">>, <<"a", COLON, "a">> >>,
                          trailing |-> <<"a", SP, "a">>])
    /\ Len(pMsg.params) = 3

\* C7: for the empty line and for every line of spaces only, the parser
\* returns {prefix: undefined, command: "", params: []}.
AllSpaces(line) == \A i \in 1..Len(line) : line[i] = SP

C7_Blank == (pc = "done" /\ AllSpaces(pLine)) => pMsg = EmptyMessage

\* C8: the parser is total. Every iteration of the parameter loop returns or
\* moves the cursor forward, the cursor stays within the line, and a call
\* that entered the loop reaches its return.
C8_Totality ==
    /\ [][pc = "loop" => (pc' = "done" \/ pIndex' > pIndex)]_vars
    /\ [](pIndex <= Len(pLine))
    /\ (pc = "loop") ~> (pc = "done")

C8_Witness ==
    /\ pc = "done"
    /\ pLine = <<SP, "a", SP, SP, "a", SP, "a", SP>>
    /\ Len(pMsg.params) = 3

\* C9: accounting. The chunks received so far, concatenated, are the emitted
\* lines with their terminators, concatenated, followed by incomplete.
C9_Accounting == Received = Concat(emittedRaw) \o buffer.incomplete

\* C10: terminator tolerance. For a payload terminated with "\n" only, the
\* lines emitted are the lines emitted for the same payload with every
\* terminator written "\r\n".
RECURSIVE ToCRLF(_)
ToCRLF(payload) ==
    IF payload = <<>> THEN <<>>
    ELSE (IF Head(payload) = LF THEN <<CR, LF>> ELSE <<Head(payload)>>) \o ToCRLF(Tail(payload))

C10_TerminatorTolerance ==
    (\A i \in 1..Len(Received) : Received[i] # CR) => emitted = LinesOf(ToCRLF(Received))

\* C13: buffering of an unterminated chunk. From the empty buffer a first
\* chunk without "\n" emits nothing and is kept in incomplete; when the second
\* chunk is text without "\n" followed by "\n", exactly one line is emitted,
\* the two chunks concatenated without the terminator ("\n" or "\r\n"), and
\* incomplete is empty.
NoLF(str) == \A i \in 1..Len(str) : str[i] # LF

WithoutTerminator(str) ==
    IF Len(str) >= 2 /\ str[Len(str) - 1] = CR
    THEN SubSeq(str, 1, Len(str) - 2)
    ELSE SubSeq(str, 1, Len(str) - 1)

C13_Buffering ==
    /\ (Len(chunks) = 1 /\ NoLF(chunks[1])) =>
          (emitted = <<>> /\ buffer.incomplete = chunks[1])
    /\ (/\ Len(chunks) = 2
        /\ NoLF(chunks[1])
        /\ chunks[2] # <<>>
        /\ chunks[2][Len(chunks[2])] = LF
        /\ NoLF(SubSeq(chunks[2], 1, Len(chunks[2]) - 1))) =>
          (/\ emitted = <<WithoutTerminator(chunks[1] \o chunks[2])>>
           /\ buffer.incomplete = <<>>)

\* C14: a line whose parse has an empty command and no params is never
\* delivered to a subscriber of the inbound message stream.
C14_DropUnparseable ==
    \A i \in 1..Len(delivered) :
        ~(delivered[i].command = <<>> /\ delivered[i].params = <<>>)

\* C15: a send with no params writes one string that starts with the command,
\* ends with "\r\n" and has no other "\r" or "\n"; every send writes exactly
\* one string; the same message is written the same way before and after it;
\* and a caller's zero-parameter send changes nothing but the two logs.
IsHarmlessLine(command, data) ==
    /\ Len(data) >= Len(command) + 2
    /\ SubSeq(data, 1, Len(command)) = command
    /\ SubSeq(data, Len(data) - 1, Len(data)) = <<CR, LF>>
    /\ \A i \in 1..(Len(data) - 2) : data[i] \notin {CR, LF}

ZeroParamCallerSend ==
    /\ Len(sent') = Len(sent) + 1
    /\ sent'[Len(sent')].message \in CallerMessages
    /\ sent'[Len(sent')].message.params = <<>>

C15_ZeroParamHarmless ==
    /\ [](\A i \in 1..Len(sent) :
            sent[i].message.params = <<>> =>
                IsHarmlessLine(sent[i].message.command, sent[i].data))
    /\ [](Len(written) = Len(sent) + nComplete + nError)
    /\ [](\A i, j \in 1..Len(sent) :
            sent[i].message = sent[j].message => sent[i].data = sent[j].data)
    /\ [][ZeroParamCallerSend =>
            /\ written' = Append(written, sent'[Len(sent')].data)
            /\ UNCHANGED <<sockVars, lineVars, nComplete, nError>>]_vars

\* the same message sent before and after a zero-parameter send
C15_Witness ==
    \E i, j, k \in 1..Len(sent) :
        /\ i < j /\ j < k
        /\ sent[j].message.params = <<>>
        /\ sent[i].message = sent[k].message
        /\ sent[i].message.params # <<>>

\* C18: line-feed freedom. incomplete holds no "\n", no emitted line holds
\* "\n", and the number of lines emitted so far is the number of non-empty
\* runs of the received payload that are followed by "\n".
RECURSIVE TerminatedRuns(_, _)
TerminatedRuns(payload, inRun) ==
    IF payload = <<>> THEN 0
    ELSE IF Head(payload) = LF
         THEN (IF inRun THEN 1 ELSE 0) + TerminatedRuns(Tail(payload), FALSE)
         ELSE TerminatedRuns(Tail(payload), TRUE)

C18_LineFeedFree ==
    /\ NoLF(buffer.incomplete)
    /\ \A i \in 1..Len(emitted) : NoLF(emitted[i])
    /\ Len(emitted) = TerminatedRuns(Received, FALSE)

C18_Witness ==
    /\ Len(emitted) >= 2
    /\ buffer.incomplete # <<>>
    /\ Len(chunks) >= 2

\* C19: round trip. For a message without prefix, with a command and leading
\* params that are non-empty tokens not starting with ':' and at least one
\* param, the written line without its "\r\n" parses back to the message; with
\* no params it does not.
C19_RoundTrip ==
    pc = "done" =>
        \A message \in RoundTripMessages :
            StripCRLF(Format(message)) = pLine =>
                (pMsg = message) <=> (Len(message.params) >= 1)

C19_Witness ==
    /\ pc = "done"
    /\ pLine = StripCRLF(Format(Message(<<"a">>, << <<"a", COLON, "a">>, <<"a">>, <<COLON, SP>> >>)))
    /\ Len(pMsg.params) = 3

\* C20: result shape. The prefix, when defined, and the command hold no
\* space; every param but the last is non-empty, holds no space and does not
\* start with ':'.
NoSpace(str) == \A i \in 1..Len(str) : str[i] # SP

C20_ResultShape ==
    pc = "done" =>
        /\ pMsg.prefix # Undefined => NoSpace(pMsg.prefix)
        /\ NoSpace(pMsg.command)
        /\ \A i \in 1..(Len(pMsg.params) - 1) :
              /\ pMsg.params[i] # <<>>
              /\ NoSpace(pMsg.params[i])
              /\ pMsg.params[i][1] # COLON

C20_Witness ==
    /\ pc = "done"
    /\ pLine = <<COLON, "a", SP, SP, SP, "a", SP, SP>>
    /\ pMsg.params = << <<>> >>

\* C11: broadcast consistency. A consumer subscribed to the inbound message
\* stream observes a suffix of the messages observed by the keep-alive
\* handler, which is subscribed from the start.
IsSuffix(a, b) ==
    Len(a) <= Len(b) /\ SubSeq(b, Len(b) - Len(a) + 1, Len(b)) = a

C11_Broadcast ==
    \A s \in Subscribers :
        (subs[s].state = "active" /\ subscription = "active") =>
            IsSuffix(subs[s].seen, delivered)

\* C12: channel view filter. The stream of a channel view is the subsequence
\* of its inbound messages that have a param and whose first param equals
\* the channel name up to case.
SameUpToCase(a, b) ==
    /\ Len(a) = Len(b)
    /\ \A i \in 1..Len(a) :
          \/ a[i] = b[i]
          \/ \E k \in 1..26 : {a[i], b[i]} = {UpperCase[k], LowerCase[k]}

IsPong(message) == message.command = PONG
Terminated(state) == state \in {"completed", "errored"}
CloseStep == sockState # "closed" /\ sockState' = "closed"

C16_TerminalOnce ==
    /\ [][CloseStep =>
            /\ \A s \in Subscribers :
                  subs[s].state = "active" =>
                      /\ subs'[s].state =
                            (IF lastClose' = "error" THEN "errored" ELSE "completed")
                      /\ subs'[s].terminal = subs[s].terminal + 1
            /\ subscription = "active" =>
                  subscription' = (IF lastClose' = "error" THEN "errored" ELSE "completed")]_vars
    /\ [](\A s \in Subscribers :
            /\ subs[s].terminal <= 1
            /\ Terminated(subs[s].state) <=> subs[s].terminal = 1)
    /\ [][\A s \in Subscribers : Terminated(subs[s].state) => subs'[s] = subs[s]]_vars
    /\ [][Terminated(subscription) =>
            /\ subscription' = subscription
            /\ delivered' = delivered
            /\ Select(SentMessages', IsPong) = Select(SentMessages, IsPong)]_vars

\* data arrives for a later consumer after the close with an error
C16_Witness ==
    /\ subs["ext"].state = "errored"
    /\ subs["ext"].terminal = 1
    /\ subs["ext"].got # <<>>
    /\ subscription = "errored"
    /\ sockState = "open"
    /\ subs["view"].state = "active"
    /\ subs["view"].nIn >= 1

\* C17: unsubscription isolation. The step that unsubscribes a consumer
\* changes no other subscription and issues no write and no end on the
\* transport; the consumer gets nothing afterwards; every "data" event still
\* reaches every active subscriber, whose messages are those of the chunks it
\* was handed.
UnsubscribeStep(s) == subs[s].state = "active" /\ subs'[s].state = "unsubscribed"

C17_UnsubscribeIsolated ==
    /\ [][\A s \in Subscribers :
            UnsubscribeStep(s) =>
                /\ \A t \in Subscribers \ {s} : subs'[t] = subs[t]
                /\ UNCHANGED <<subscription, buffer, delivered>>
                /\ UNCHANGED <<written, endCalls, sockState>>]_vars
    /\ [][\A s \in Subscribers :
            subs[s].state = "unsubscribed" => subs'[s] = subs[s]]_vars
    /\ [][nData' = nData + 1 =>
            /\ \A t \in Subscribers :
                  subs[t].state = "active" => subs'[t].nIn = subs[t].nIn + 1
            /\ subscription = "active" => Len(chunks') = Len(chunks) + 1]_vars
    /\ [](\A t \in Subscribers : subs[t].seen = MessagesOf(LinesOf(subs[t].inp)))
    /\ [](delivered = MessagesOf(LinesOf(Received)))

\* the channel view and the keep-alive handler go on after ext unsubscribed
C17_Witness ==
    /\ subs["ext"].state = "unsubscribed"
    /\ subs["ext"].nIn >= 1
    /\ subs["view"].state = "active"
    /\ subs["view"].nIn > subs["ext"].nIn
    /\ Len(chunks) > subs["ext"].nIn
    /\ \E i \in 1..Len(sent) : IsPong(sent[i].message)
====
